---- MODULE Spec2Model ----
(***************************************************************************)
(* Model of the WNV ETL pipeline (Lab2ETL.py, GSheetsETL_Lab2.py,          *)
(* Lab3ETL.py, final_project.py, final_project2.py): extract, the          *)
(* Nominatim geocoder, the row transformer and the main sequence.          *)
(*                                                                         *)
(* Text that the code parses or formats (the lon/lat fields of a geocoder  *)
(* result, the cells of the output CSV) is a tuple of one-character        *)
(* strings, so that float(), str(), strip() and replace() are computed.    *)
(***************************************************************************)
EXTENDS Integers, Sequences, FiniteSets, TLC

\* ------------------------------------------------------------------ bounds
MaxRows == 2

\* ---------------------------------------------------------------- variants
Variants == {"Lab2ETL", "GSheetsETL_Lab2", "Lab3ETL", "final_project", "final_project2"}

\* ------------------------------------------------------- Python float model
\* A Python value: None, or a float.  A float is nan, +-inf, or a finite
\* double, written as the decimal repr() shows for it: (-1)^neg * num / 10^frac,
\* with num carrying no trailing fractional zero.
None == [kind |-> "None", cls |-> "", neg |-> FALSE, num |-> 0, frac |-> 0]
Fin(neg, num, frac) == [kind |-> "float", cls |-> "fin", neg |-> neg, num |-> num, frac |-> frac]
NaN == [kind |-> "float", cls |-> "nan", neg |-> FALSE, num |-> 0, frac |-> 0]
Inf(neg) == [kind |-> "float", cls |-> "inf", neg |-> neg, num |-> 0, frac |-> 0]

\* A character of a text is a string: an ASCII character is the string of that
\* character, and a character outside ASCII is the string of its code point,
\* "U+" and at least four hexadecimal digits ("U+00A0", "U+0664", "U+1D7CE").

\* the characters outside ASCII that str.isspace() holds of (Unicode 14.0)
UnicodeSpaces ==
  {"U+0085", "U+00A0", "U+1680", "U+2000", "U+2001", "U+2002",
   "U+2003", "U+2004", "U+2005", "U+2006", "U+2007", "U+2008",
   "U+2009", "U+200A", "U+2028", "U+2029", "U+202F", "U+205F",
   "U+3000"}
\* the characters float() skips around a number: six of ASCII and those outside
FloatWhitespace == {" ", "\t", "\n", "\r", "\f", ""} \cup UnicodeSpaces
\* the characters str.strip() removes: these, and the separators 1C-1F
Whitespace == FloatWhitespace \cup {"", "", "", ""}

DigitChars == <<"0", "1", "2", "3", "4", "5", "6", "7", "8", "9">>
IsDigit(c) == \E d \in 1..10 : DigitChars[d] = c

\* the decimal digits outside ASCII (Unicode 14.0, general category Nd), one
\* row of ten for each script, from its zero to its nine
UnicodeDecimals ==
  <<<<"U+0660", "U+0661", "U+0662", "U+0663", "U+0664", "U+0665", "U+0666", "U+0667", "U+0668", "U+0669">>,
    <<"U+06F0", "U+06F1", "U+06F2", "U+06F3", "U+06F4", "U+06F5", "U+06F6", "U+06F7", "U+06F8", "U+06F9">>,
    <<"U+07C0", "U+07C1", "U+07C2", "U+07C3", "U+07C4", "U+07C5", "U+07C6", "U+07C7", "U+07C8", "U+07C9">>,
    <<"U+0966", "U+0967", "U+0968", "U+0969", "U+096A", "U+096B", "U+096C", "U+096D", "U+096E", "U+096F">>,
    <<"U+09E6", "U+09E7", "U+09E8", "U+09E9", "U+09EA", "U+09EB", "U+09EC", "U+09ED", "U+09EE", "U+09EF">>,
    <<"U+0A66", "U+0A67", "U+0A68", "U+0A69", "U+0A6A", "U+0A6B", "U+0A6C", "U+0A6D", "U+0A6E", "U+0A6F">>,
    <<"U+0AE6", "U+0AE7", "U+0AE8", "U+0AE9", "U+0AEA", "U+0AEB", "U+0AEC", "U+0AED", "U+0AEE", "U+0AEF">>,
    <<"U+0B66", "U+0B67", "U+0B68", "U+0B69", "U+0B6A", "U+0B6B", "U+0B6C", "U+0B6D", "U+0B6E", "U+0B6F">>,
    <<"U+0BE6", "U+0BE7", "U+0BE8", "U+0BE9", "U+0BEA", "U+0BEB", "U+0BEC", "U+0BED", "U+0BEE", "U+0BEF">>,
    <<"U+0C66", "U+0C67", "U+0C68", "U+0C69", "U+0C6A", "U+0C6B", "U+0C6C", "U+0C6D", "U+0C6E", "U+0C6F">>,
    <<"U+0CE6", "U+0CE7", "U+0CE8", "U+0CE9", "U+0CEA", "U+0CEB", "U+0CEC", "U+0CED", "U+0CEE", "U+0CEF">>,
    <<"U+0D66", "U+0D67", "U+0D68", "U+0D69", "U+0D6A", "U+0D6B", "U+0D6C", "U+0D6D", "U+0D6E", "U+0D6F">>,
    <<"U+0DE6", "U+0DE7", "U+0DE8", "U+0DE9", "U+0DEA", "U+0DEB", "U+0DEC", "U+0DED", "U+0DEE", "U+0DEF">>,
    <<"U+0E50", "U+0E51", "U+0E52", "U+0E53", "U+0E54", "U+0E55", "U+0E56", "U+0E57", "U+0E58", "U+0E59">>,
    <<"U+0ED0", "U+0ED1", "U+0ED2", "U+0ED3", "U+0ED4", "U+0ED5", "U+0ED6", "U+0ED7", "U+0ED8", "U+0ED9">>,
    <<"U+0F20", "U+0F21", "U+0F22", "U+0F23", "U+0F24", "U+0F25", "U+0F26", "U+0F27", "U+0F28", "U+0F29">>,
    <<"U+1040", "U+1041", "U+1042", "U+1043", "U+1044", "U+1045", "U+1046", "U+1047", "U+1048", "U+1049">>,
    <<"U+1090", "U+1091", "U+1092", "U+1093", "U+1094", "U+1095", "U+1096", "U+1097", "U+1098", "U+1099">>,
    <<"U+17E0", "U+17E1", "U+17E2", "U+17E3", "U+17E4", "U+17E5", "U+17E6", "U+17E7", "U+17E8", "U+17E9">>,
    <<"U+1810", "U+1811", "U+1812", "U+1813", "U+1814", "U+1815", "U+1816", "U+1817", "U+1818", "U+1819">>,
    <<"U+1946", "U+1947", "U+1948", "U+1949", "U+194A", "U+194B", "U+194C", "U+194D", "U+194E", "U+194F">>,
    <<"U+19D0", "U+19D1", "U+19D2", "U+19D3", "U+19D4", "U+19D5", "U+19D6", "U+19D7", "U+19D8", "U+19D9">>,
    <<"U+1A80", "U+1A81", "U+1A82", "U+1A83", "U+1A84", "U+1A85", "U+1A86", "U+1A87", "U+1A88", "U+1A89">>,
    <<"U+1A90", "U+1A91", "U+1A92", "U+1A93", "U+1A94", "U+1A95", "U+1A96", "U+1A97", "U+1A98", "U+1A99">>,
    <<"U+1B50", "U+1B51", "U+1B52", "U+1B53", "U+1B54", "U+1B55", "U+1B56", "U+1B57", "U+1B58", "U+1B59">>,
    <<"U+1BB0", "U+1BB1", "U+1BB2", "U+1BB3", "U+1BB4", "U+1BB5", "U+1BB6", "U+1BB7", "U+1BB8", "U+1BB9">>,
    <<"U+1C40", "U+1C41", "U+1C42", "U+1C43", "U+1C44", "U+1C45", "U+1C46", "U+1C47", "U+1C48", "U+1C49">>,
    <<"U+1C50", "U+1C51", "U+1C52", "U+1C53", "U+1C54", "U+1C55", "U+1C56", "U+1C57", "U+1C58", "U+1C59">>,
    <<"U+A620", "U+A621", "U+A622", "U+A623", "U+A624", "U+A625", "U+A626", "U+A627", "U+A628", "U+A629">>,
    <<"U+A8D0", "U+A8D1", "U+A8D2", "U+A8D3", "U+A8D4", "U+A8D5", "U+A8D6", "U+A8D7", "U+A8D8", "U+A8D9">>,
    <<"U+A900", "U+A901", "U+A902", "U+A903", "U+A904", "U+A905", "U+A906", "U+A907", "U+A908", "U+A909">>,
    <<"U+A9D0", "U+A9D1", "U+A9D2", "U+A9D3", "U+A9D4", "U+A9D5", "U+A9D6", "U+A9D7", "U+A9D8", "U+A9D9">>,
    <<"U+A9F0", "U+A9F1", "U+A9F2", "U+A9F3", "U+A9F4", "U+A9F5", "U+A9F6", "U+A9F7", "U+A9F8", "U+A9F9">>,
    <<"U+AA50", "U+AA51", "U+AA52", "U+AA53", "U+AA54", "U+AA55", "U+AA56", "U+AA57", "U+AA58", "U+AA59">>,
    <<"U+ABF0", "U+ABF1", "U+ABF2", "U+ABF3", "U+ABF4", "U+ABF5", "U+ABF6", "U+ABF7", "U+ABF8", "U+ABF9">>,
    <<"U+FF10", "U+FF11", "U+FF12", "U+FF13", "U+FF14", "U+FF15", "U+FF16", "U+FF17", "U+FF18", "U+FF19">>,
    <<"U+104A0", "U+104A1", "U+104A2", "U+104A3", "U+104A4", "U+104A5", "U+104A6", "U+104A7", "U+104A8", "U+104A9">>,
    <<"U+10D30", "U+10D31", "U+10D32", "U+10D33", "U+10D34", "U+10D35", "U+10D36", "U+10D37", "U+10D38", "U+10D39">>,
    <<"U+11066", "U+11067", "U+11068", "U+11069", "U+1106A", "U+1106B", "U+1106C", "U+1106D", "U+1106E", "U+1106F">>,
    <<"U+110F0", "U+110F1", "U+110F2", "U+110F3", "U+110F4", "U+110F5", "U+110F6", "U+110F7", "U+110F8", "U+110F9">>,
    <<"U+11136", "U+11137", "U+11138", "U+11139", "U+1113A", "U+1113B", "U+1113C", "U+1113D", "U+1113E", "U+1113F">>,
    <<"U+111D0", "U+111D1", "U+111D2", "U+111D3", "U+111D4", "U+111D5", "U+111D6", "U+111D7", "U+111D8", "U+111D9">>,
    <<"U+112F0", "U+112F1", "U+112F2", "U+112F3", "U+112F4", "U+112F5", "U+112F6", "U+112F7", "U+112F8", "U+112F9">>,
    <<"U+11450", "U+11451", "U+11452", "U+11453", "U+11454", "U+11455", "U+11456", "U+11457", "U+11458", "U+11459">>,
    <<"U+114D0", "U+114D1", "U+114D2", "U+114D3", "U+114D4", "U+114D5", "U+114D6", "U+114D7", "U+114D8", "U+114D9">>,
    <<"U+11650", "U+11651", "U+11652", "U+11653", "U+11654", "U+11655", "U+11656", "U+11657", "U+11658", "U+11659">>,
    <<"U+116C0", "U+116C1", "U+116C2", "U+116C3", "U+116C4", "U+116C5", "U+116C6", "U+116C7", "U+116C8", "U+116C9">>,
    <<"U+11730", "U+11731", "U+11732", "U+11733", "U+11734", "U+11735", "U+11736", "U+11737", "U+11738", "U+11739">>,
    <<"U+118E0", "U+118E1", "U+118E2", "U+118E3", "U+118E4", "U+118E5", "U+118E6", "U+118E7", "U+118E8", "U+118E9">>,
    <<"U+11950", "U+11951", "U+11952", "U+11953", "U+11954", "U+11955", "U+11956", "U+11957", "U+11958", "U+11959">>,
    <<"U+11C50", "U+11C51", "U+11C52", "U+11C53", "U+11C54", "U+11C55", "U+11C56", "U+11C57", "U+11C58", "U+11C59">>,
    <<"U+11D50", "U+11D51", "U+11D52", "U+11D53", "U+11D54", "U+11D55", "U+11D56", "U+11D57", "U+11D58", "U+11D59">>,
    <<"U+11DA0", "U+11DA1", "U+11DA2", "U+11DA3", "U+11DA4", "U+11DA5", "U+11DA6", "U+11DA7", "U+11DA8", "U+11DA9">>,
    <<"U+16A60", "U+16A61", "U+16A62", "U+16A63", "U+16A64", "U+16A65", "U+16A66", "U+16A67", "U+16A68", "U+16A69">>,
    <<"U+16AC0", "U+16AC1", "U+16AC2", "U+16AC3", "U+16AC4", "U+16AC5", "U+16AC6", "U+16AC7", "U+16AC8", "U+16AC9">>,
    <<"U+16B50", "U+16B51", "U+16B52", "U+16B53", "U+16B54", "U+16B55", "U+16B56", "U+16B57", "U+16B58", "U+16B59">>,
    <<"U+1D7CE", "U+1D7CF", "U+1D7D0", "U+1D7D1", "U+1D7D2", "U+1D7D3", "U+1D7D4", "U+1D7D5", "U+1D7D6", "U+1D7D7">>,
    <<"U+1D7D8", "U+1D7D9", "U+1D7DA", "U+1D7DB", "U+1D7DC", "U+1D7DD", "U+1D7DE", "U+1D7DF", "U+1D7E0", "U+1D7E1">>,
    <<"U+1D7E2", "U+1D7E3", "U+1D7E4", "U+1D7E5", "U+1D7E6", "U+1D7E7", "U+1D7E8", "U+1D7E9", "U+1D7EA", "U+1D7EB">>,
    <<"U+1D7EC", "U+1D7ED", "U+1D7EE", "U+1D7EF", "U+1D7F0", "U+1D7F1", "U+1D7F2", "U+1D7F3", "U+1D7F4", "U+1D7F5">>,
    <<"U+1D7F6", "U+1D7F7", "U+1D7F8", "U+1D7F9", "U+1D7FA", "U+1D7FB", "U+1D7FC", "U+1D7FD", "U+1D7FE", "U+1D7FF">>,
    <<"U+1E140", "U+1E141", "U+1E142", "U+1E143", "U+1E144", "U+1E145", "U+1E146", "U+1E147", "U+1E148", "U+1E149">>,
    <<"U+1E2F0", "U+1E2F1", "U+1E2F2", "U+1E2F3", "U+1E2F4", "U+1E2F5", "U+1E2F6", "U+1E2F7", "U+1E2F8", "U+1E2F9">>,
    <<"U+1E950", "U+1E951", "U+1E952", "U+1E953", "U+1E954", "U+1E955", "U+1E956", "U+1E957", "U+1E958", "U+1E959">>,
    <<"U+1FBF0", "U+1FBF1", "U+1FBF2", "U+1FBF3", "U+1FBF4", "U+1FBF5", "U+1FBF6", "U+1FBF7", "U+1FBF8", "U+1FBF9">>>>
\* the ASCII digit of the value of each of them
AsciiDigitOf ==
  [c \in UNION {{UnicodeDecimals[r][d] : d \in 1..10} : r \in 1..Len(UnicodeDecimals)} |->
     DigitChars[CHOOSE d \in 1..10 : \E r \in 1..Len(UnicodeDecimals) : UnicodeDecimals[r][d] = c]]

\* float() reads a decimal digit of any script as the ASCII digit of its value:
\* the text s with each character that has a digit in digitOf replaced by it
ReplaceDigits(s, digitOf) ==
  [i \in 1..Len(s) |-> IF s[i] \in DOMAIN digitOf THEN digitOf[s[i]] ELSE s[i]]

\* str.lower() on the letters float() looks at
Lower(c) ==
  CASE c = "N" -> "n" [] c = "A" -> "a" [] c = "I" -> "i" [] c = "F" -> "f"
    [] c = "T" -> "t" [] c = "Y" -> "y" [] OTHER -> c

\* the text s without the characters of ws at its two ends
RECURSIVE StripOf(_, _)
StripOf(s, ws) ==
  IF s # <<>> /\ Head(s) \in ws THEN StripOf(Tail(s), ws)
  ELSE IF s # <<>> /\ s[Len(s)] \in ws THEN StripOf(SubSeq(s, 1, Len(s) - 1), ws)
  ELSE s

\* str.strip()
Strip(s) == StripOf(s, Whitespace)

\* the whitespace float() skips before and after the number
FloatStrip(s) == StripOf(s, FloatWhitespace)

\* str.replace(c, "")
Remove(s, c) == SelectSeq(s, LAMBDA ch : ch # c)

RECURSIVE DigitsVal(_)
DigitsVal(s) ==
  IF s = <<>> THEN 0
  ELSE DigitsVal(SubSeq(s, 1, Len(s) - 1)) * 10 + (CHOOSE d \in 0..9 : DigitChars[d + 1] = s[Len(s)])

RECURSIVE StripZeros(_)
StripZeros(s) == IF s # <<>> /\ s[Len(s)] = "0" THEN StripZeros(SubSeq(s, 1, Len(s) - 1)) ELSE s

RECURSIVE StripLeadingZeros(_)
StripLeadingZeros(s) == IF s # <<>> /\ Head(s) = "0" THEN StripLeadingZeros(Tail(s)) ELSE s

RECURSIVE Pow10(_)
Pow10(k) == IF k = 0 THEN 1 ELSE 10 * Pow10(k - 1)

\* the least element of the set of integers S, or d when S is empty
MinOf(S, d) == IF S = {} THEN d ELSE CHOOSE i \in S : \A j \in S : i <= j

\* ------------------------------------------ the double nearest to a decimal
\* float() gives the IEEE 754 double nearest to the decimal it reads (the one
\* with the even mantissa of two equally near), and repr() shows a double by
\* the shortest decimal that float() reads back as that double.  A double is
\* m * 2^q with m below 2^MantissaBits and q from MinBinaryExponent upwards,
\* and is below 2^MaxBinaryExponent.
MantissaBits == 53
MinBinaryExponent == 0 - 1074
MaxBinaryExponent == 1024
\* repr() never needs more digits than this
ReprMaxDigits == 17
\* decimals of a decimal exponent above the first are read as inf, those of
\* one below the second as zero
MaxFloatExponent == 308
MinFloatExponent == 0 - 324
\* a decimal of up to this many digits is the shortest one of its double
FloatDigits == 15

RECURSIVE Pow2(_)
Pow2(k) == IF k = 0 THEN 1 ELSE 2 * Pow2(k - 1)

\* the rational n / d, n >= 0 and d > 0
Rat(n, d) == [n |-> n, d |-> d]
\* n * 10^e and r * 2^q
Scale10(n, e) == IF e >= 0 THEN Rat(n * Pow10(e), 1) ELSE Rat(n, Pow10(0 - e))
Scale2(r, q) == IF q >= 0 THEN Rat(r.n * Pow2(q), r.d) ELSE Rat(r.n, r.d * Pow2(0 - q))
RatLess(a, b) == a.n * b.d < b.n * a.d
RatEqual(a, b) == a.n * b.d = b.n * a.d

\* the integer nearest to r, the even one of two equally near
RoundHalfEven(r) ==
  IF 2 * (r.n % r.d) > r.d \/ (2 * (r.n % r.d) = r.d /\ (r.n \div r.d) % 2 = 1)
  THEN (r.n \div r.d) + 1
  ELSE r.n \div r.d

\* the exponent q of the doubles m * 2^q around r, for r from
\* 10^MinFloatExponent up to 10^(MaxFloatExponent + 1): the largest q with
\* 2^(q + MantissaBits - 1) <= r, and MinBinaryExponent if there is none
BinaryExponent(r) ==
  CHOOSE q \in MinBinaryExponent..MaxBinaryExponent :
    \A q2 \in MinBinaryExponent..MaxBinaryExponent :
      q2 <= q <=> (q2 = MinBinaryExponent \/ ~RatLess(r, Scale2(Rat(1, 1), q2 + MantissaBits - 1)))

\* the double nearest to r > 0, as a rational; 2^MaxBinaryExponent or more
\* stands for inf
Double(r) ==
  Scale2(Rat(RoundHalfEven(Scale2(r, 0 - BinaryExponent(r))), 1), BinaryExponent(r))

\* floor(log10 w) of a finite double w > 0
Log10(w) ==
  CHOOSE e \in MinFloatExponent..MaxFloatExponent :
    \A e2 \in MinFloatExponent..MaxFloatExponent : e2 <= e <=> ~RatLess(w, Scale10(1, e2))

\* float() reads the decimal n * 10^e as the double w
ReadsAs(w, n, e) == RatEqual(Double(Scale10(n, e)), w)

\* the multiples of 10^e next to w, floor(w / 10^e) and the one above it, that
\* read as w
ReprChoices(w, e) ==
  {n \in UNION {{lo, lo + 1} :
                  lo \in {(w.n * (IF e < 0 THEN Pow10(0 - e) ELSE 1))
                            \div (w.d * (IF e >= 0 THEN Pow10(e) ELSE 1))}} :
     ReadsAs(w, n, e)}

\* the number of digits repr() shows for the double w of decimal exponent x:
\* the least number of digits of a decimal that reads as w
ReprDigits(w, x) ==
  MinOf({p \in 1..ReprMaxDigits : ReprChoices(w, x - p + 1) # {}}, ReprMaxDigits)

\* of the multiples of 10^e in the set C, the nearest one to w, the even one
\* of two equally near
ReprNearest(w, e, C) ==
  CHOOSE n \in C : \A m \in C \ {n} :
    IF RatEqual(Scale2(w, 1), Scale10(n + m, e)) THEN n % 2 = 0
    ELSE (n < m) = RatLess(Scale2(w, 1), Scale10(n + m, e))

\* the float (-1)^neg * n * 10^e, n > 0, in the form of Fin
RECURSIVE Decimal(_, _, _)
Decimal(neg, n, e) ==
  IF e < 0 /\ n % 10 = 0 THEN Decimal(neg, n \div 10, e + 1)
  ELSE IF e <= 0 THEN Fin(neg, n, 0 - e)
  ELSE Fin(neg, n * Pow10(e), 0)

\* the finite double w > 0 as repr() shows it, in multiples of 10^e
Shortest(neg, w, e) == Decimal(neg, ReprNearest(w, e, ReprChoices(w, e)), e)

\* the float that is the double w
FromDouble(neg, w) ==
  IF ~RatLess(w, Scale2(Rat(1, 1), MaxBinaryExponent)) THEN Inf(neg)
  ELSE IF w.n = 0 THEN Fin(neg, 0, 0)
  ELSE Shortest(neg, w, Log10(w) - ReprDigits(w, Log10(w)) + 1)

\* the float read from the decimal n * 10^e, n > 0
Rounded(neg, n, e) == FromDouble(neg, Double(Scale10(n, e)))

\* The float with significant digits sig (no leading zero), the decimal point k
\* places from their right end, and decimal exponent x.  A decimal of at most
\* FloatDigits digits whose last digit is a place above the smallest double's
\* first is further from every other such decimal than its double is, so it
\* is what repr() shows for its double: Rounded gives it back unchanged.
Ranged(neg, sig, k, x) ==
  IF sig = <<>> THEN Fin(neg, 0, 0)
  ELSE IF x > MaxFloatExponent THEN Inf(neg)
  ELSE IF x < MinFloatExponent THEN Fin(neg, 0, 0)
  ELSE IF Len(sig) <= FloatDigits /\ x < MaxFloatExponent /\ Len(sig) <= x - MinFloatExponent - 1
       THEN Decimal(neg, DigitsVal(sig), 0 - k)
  ELSE Rounded(neg, DigitsVal(sig), 0 - k)

Scaled(neg, sig, k) == Ranged(neg, sig, k, Len(sig) - k - 1)

\* ValueError from float()
NotANumber == [ok |-> FALSE, v |-> None]

AllDigits(s) == \A i \in 1..Len(s) : IsDigit(s[i])

\* the index of the first character of s that is in cs, Len(s) + 1 if none is
FirstOf(s, cs) == MinOf({i \in 1..Len(s) : s[i] \in cs}, Len(s) + 1)

\* an underscore is accepted only between two digits
UnderscoresOk(s) ==
  \A i \in 1..Len(s) :
    s[i] = "_" => 1 < i /\ i < Len(s) /\ IsDigit(s[i - 1]) /\ IsDigit(s[i + 1])

\* the exponent part, the text after e: an optional sign and at least one
\* digit; no e at all is the exponent 0
SignedDigits(ex) == IF ex # <<>> /\ Head(ex) \in {"+", "-"} THEN Tail(ex) ELSE ex
ExponentOk(hasE, ex) == hasE => SignedDigits(ex) # <<>> /\ AllDigits(SignedDigits(ex))
ExponentValue(hasE, ex) ==
  IF ~hasE THEN 0
  ELSE IF Head(ex) = "-" THEN 0 - DigitsVal(SignedDigits(ex))
  ELSE DigitsVal(SignedDigits(ex))

\* the number with integer digits ip, fraction digits fp and exponent part ex
ParseDigits(neg, ip, fp, hasE, ex) ==
  IF Len(ip) + Len(fp) >= 1 /\ AllDigits(ip) /\ AllDigits(fp) /\ ExponentOk(hasE, ex)
  THEN [ok |-> TRUE,
        v |-> Scaled(neg, StripLeadingZeros(ip \o fp), Len(fp) - ExponentValue(hasE, ex))]
  ELSE NotANumber

\* the mantissa m, split at its decimal point at index dot
ParseMantissa(neg, m, dot, hasE, ex) ==
  ParseDigits(neg, SubSeq(m, 1, dot - 1), SubSeq(m, dot + 1, Len(m)), hasE, ex)

\* the number t, split at its e or E at index p
ParseExponent(neg, t, p) ==
  ParseMantissa(neg, SubSeq(t, 1, p - 1), FirstOf(SubSeq(t, 1, p - 1), {"."}),
                p <= Len(t), SubSeq(t, p + 1, Len(t)))

ParseUnderscored(neg, t) == ParseExponent(neg, t, FirstOf(t, {"e", "E"}))

\* the number forms float() accepts after the sign: digits, digits., .digits,
\* digits.digits, each with an optional exponent e[+-]digits, and with single
\* underscores between digits
ParseDecimal(neg, s) ==
  IF UnderscoresOk(s) THEN ParseUnderscored(neg, Remove(s, "_")) ELSE NotANumber

\* nan, inf and infinity in any case (low is body in lower case), else a number
ParseWord(neg, body, low) ==
  IF low = <<"n", "a", "n">> THEN [ok |-> TRUE, v |-> NaN]
  ELSE IF low = <<"i", "n", "f">> \/ low = <<"i", "n", "f", "i", "n", "i", "t", "y">>
       THEN [ok |-> TRUE, v |-> Inf(neg)]
  ELSE ParseDecimal(neg, body)

ParseUnsigned(neg, body) == ParseWord(neg, body, [i \in 1..Len(body) |-> Lower(body[i])])

\* the stripped text t: an optional sign, then the rest
ParseSigned(t) ==
  ParseUnsigned(t # <<>> /\ Head(t) = "-", SignedDigits(t))

\* float(s) for a str s: ok = FALSE is ValueError
PyFloat(s) == ParseSigned(FloatStrip(ReplaceDigits(s, AsciiDigitOf)))

RECURSIVE Digits(_)
Digits(n) == IF n < 10 THEN <<DigitChars[n + 1]>> ELSE Digits(n \div 10) \o <<DigitChars[(n % 10) + 1]>>

RECURSIVE ZeroPad(_, _)
ZeroPad(s, w) == IF Len(s) >= w THEN s ELSE ZeroPad(<<"0">> \o s, w)

\* repr switches to exponent notation when the decimal exponent is below -4
\* or at least 16; the exponent is printed with at least two digits
ReprMinExponent == 0 - 4
ReprMaxExponent == 16
ReprExponentWidth == 2

\* the positional notation of the float num / 10^frac
ReprPositional(num, frac) ==
  Digits(num \div Pow10(frac)) \o <<".">>
    \o (IF frac = 0 THEN <<"0">> ELSE ZeroPad(Digits(num % Pow10(frac)), frac))

\* the exponent notation of the float with significant digits sd and decimal
\* exponent x
ReprScientific(sd, x) ==
  <<Head(sd)>> \o (IF Len(sd) > 1 THEN <<".">> \o Tail(sd) ELSE <<>>)
    \o <<"e", IF x < 0 THEN "-" ELSE "+">>
    \o ZeroPad(Digits(IF x < 0 THEN 0 - x ELSE x), ReprExponentWidth)

\* repr of the finite float num / 10^frac, whose decimal exponent is x
ReprFinite(num, frac, x) ==
  IF num # 0 /\ (x < ReprMinExponent \/ x >= ReprMaxExponent)
  THEN ReprScientific(StripZeros(Digits(num)), x)
  ELSE ReprPositional(num, frac)

\* str(x) / repr(x) of a float, which is also what csv.writer writes for it
PyStr(v) ==
  (IF v.neg THEN <<"-">> ELSE <<>>)
    \o (CASE v.cls = "nan" -> <<"n", "a", "n">>
          [] v.cls = "inf" -> <<"i", "n", "f">>
          [] OTHER -> ReprFinite(v.num, v.frac, Len(Digits(v.num)) - v.frac - 1))

IsFinite(v) == v.kind = "float" /\ v.cls = "fin"


\* ------------------------------------------------- geocoder HTTP responses
\* What requests.get(full_url, headers, timeout=10) can bring back.  A JSON
\* field value is a string (its characters) or null; a result is a dict from
\* some of the keys lon, lat to field values.
JStr(chars) == [t |-> "str", s |-> chars]

Resp(kind, results) == [kind |-> kind, results |-> results]
RespTimeout == Resp("Timeout", <<>>)
\* HTTP success whose body is the JSON object {} (falsy in `if data:`)
RespJSONObject == Resp("JSONObject", <<>>)
RespEmpty == Resp("JSONList", <<>>)
RespFound(lon, lat) == Resp("JSONList", <<[k \in {"lon", "lat"} |-> IF k = "lon" THEN lon ELSE lat]>>)

TokLonA == <<"-", "1", "0", "5", ".", "2", "7">>
TokLatA == <<"4", "0", ".", "0", "1">>
TokPadded == <<" ", "4", "0", ".", "5", "0", " ">>
TokNaN == <<"N", "a", "N">>
TokAbc == <<"a", "b", "c">>
TokQuoted == <<"'", "4", "0", ".", "0", "1", "'">>
TokExp == <<"1", "e", "-", "0", "5">>
TokCR == <<"\r", "4", "0", ".", "5", "\f">>

\* the texts a lon or lat field is checked with: these, an integer, -inf, the
\* empty text, digits grouped by an underscore, a number after the separator
\* 1C, one after a no-break space, and one in Arabic-Indic digits
Tokens ==
  { TokLonA, TokLatA, TokPadded, TokNaN, TokAbc, TokQuoted, TokExp, TokCR,
    <<"4", "0">>, <<"-", "i", "n", "f">>, <<>>, <<"4", "_", "0", ".", "5">>,
    <<"", "4", "0">>,
    <<"U+00A0", "-", "1", "0", "5", ".", "2", "7">>, <<"U+0664", "U+0660">> }
\* the first result: an object with lon, lat, one of them or neither, each a
\* str or null
ResultDicts ==
  UNION {[ks -> {JStr(t) : t \in Tokens} \cup {[t |-> "null", s |-> <<>>]}] :
           ks \in {{"lon", "lat"}, {"lon"}, {"lat"}, {}}}

\* every outcome of the HTTP request the geocoder is checked against: no
\* connection, a timeout, an HTTP error status, a body that is not JSON, the
\* body {}, an object with members such as {"error": "abc"}, the empty list,
\* and a list of one result
AllResponses ==
  { Resp("ConnectionError", <<>>), RespTimeout, Resp("HTTPStatus", <<>>),
    Resp("NotJSON", <<>>), RespJSONObject,
    Resp("JSONObject", <<[k \in {"error"} |-> JStr(<<"a", "b", "c">>)]>>),
    RespEmpty }
    \cup {Resp("JSONList", <<d>>) : d \in ResultDicts}

\* the outcomes the pipeline runs are checked against
PipelineResponses ==
  { RespTimeout, RespEmpty,
    RespFound(JStr(TokLonA), JStr(TokLatA)),
    RespFound(JStr(<<"-", "1", "0", "5", ".", "3">>), JStr(TokPadded)),
    RespFound(JStr(TokNaN), JStr(TokLatA)),
    RespFound(JStr(TokAbc), JStr(TokLatA)) }

\* ------------------------------------------------------ nominatim_geocode
\* float(v) of a JSON field value: "" on success, else the exception raised
FloatOf(v) ==
  IF v.t = "null" THEN [exc |-> "TypeError", v |-> None]
  ELSE LET p == PyFloat(v.s)
       IN  IF p.ok THEN [exc |-> "", v |-> p.v] ELSE [exc |-> "ValueError", v |-> None]

Outcome(exc, found, x, y) == [exc |-> exc, found |-> found, x |-> x, y |-> y]

\* the body of the try block: requests.get, raise_for_status, response.json(),
\* `if data:`, float(data[0]['lon']), float(data[0]['lat'])
GeocodeTry(resp) ==
  CASE resp.kind = "ConnectionError" -> Outcome("ConnectionError", FALSE, None, None)
    [] resp.kind = "Timeout" -> Outcome("Timeout", FALSE, None, None)
    [] resp.kind = "HTTPStatus" -> Outcome("HTTPError", FALSE, None, None)
    [] resp.kind = "NotJSON" -> Outcome("JSONDecodeError", FALSE, None, None)
    [] resp.kind = "JSONObject" ->
         IF resp.results = <<>> THEN Outcome("", FALSE, None, None)
         ELSE Outcome("KeyError", FALSE, None, None)
    [] OTHER ->
         IF resp.results = <<>> THEN Outcome("", FALSE, None, None)
         ELSE LET d == resp.results[1]
              IN  IF "lon" \notin DOMAIN d THEN Outcome("KeyError", FALSE, None, None)
                  ELSE LET fx == FloatOf(d["lon"])
                       IN  IF fx.exc # "" THEN Outcome(fx.exc, FALSE, None, None)
                           ELSE IF "lat" \notin DOMAIN d THEN Outcome("KeyError", FALSE, None, None)
                           ELSE LET fy == FloatOf(d["lat"])
                                IN  IF fy.exc # "" THEN Outcome(fy.exc, FALSE, None, None)
                                    ELSE Outcome("", TRUE, fx.v, fy.v)

\* the exception classes `except Exception` catches among those the body raises
ExceptionOnlyRequests == {"ConnectionError", "Timeout", "HTTPError"}
ExceptException ==
  {"ConnectionError", "Timeout", "HTTPError", "JSONDecodeError", "KeyError", "TypeError", "ValueError"}

\* where a variant reports: print() or logging.info()
Channel(v) == IF v \in {"Lab2ETL", "GSheetsETL_Lab2"} THEN "print" ELSE "logging"
Msg(chan, text) == [chan |-> chan, text |-> text]

\* the "No results found for: ..." report of the else branch; GSheetsEtl has no else branch
NoResultsMsg(v) ==
  IF v = "GSheetsETL_Lab2" THEN <<>> ELSE <<Msg(Channel(v), "No results found")>>

GeoReturn(raised, x, y, msgs) == [raised |-> raised, x |-> x, y |-> y, msgs |-> msgs]

\* nominatim_geocode(address) when the HTTP request ends as resp: what it
\* returns (x, y), what it reports, and the exception it lets through ("" if none)
nominatim_geocode(v, resp) ==
  LET t == GeocodeTry(resp)
  IN  IF t.exc = "" THEN
        IF t.found THEN GeoReturn("", t.x, t.y, <<>>)
        ELSE GeoReturn("", None, None, NoResultsMsg(v))
      ELSE IF t.exc \in ExceptException
        THEN GeoReturn("", None, None, <<Msg(Channel(v), "Geocoding failed")>>)
      ELSE GeoReturn(t.exc, None, None, <<>>)


\* ------------------------------------------------------------------- files
\* The downloaded CSV (Opt_Out_Addresses.csv) as csv.DictReader sees it: whether
\* the header has a `Street Address` column, and each data row's cell under it
\* (a short row has None there).
Addresses == {"1 Main St", "2 Pine St"}
Cell(text) == [none |-> FALSE, text |-> text]
NoneCell == [none |-> TRUE, text |-> ""]

InFile(hasCol, cells) == [exists |-> TRUE, hasCol |-> hasCol, cells |-> cells]
NoInFile == [exists |-> FALSE, hasCol |-> FALSE, cells |-> <<>>]

SeqsUpTo(S, n) == UNION {[1..k -> S] : k \in 0..n}

\* what the published sheet can hold: rows of addresses, some of them short, or
\* a document without the column (an error page, a sheet with other headers)
Sheets ==
  {InFile(TRUE, c) : c \in SeqsUpTo({Cell(a) : a \in Addresses} \cup {NoneCell}, MaxRows)}
    \cup {InFile(FALSE, c) : c \in SeqsUpTo({NoneCell}, MaxRows)}

\* the transformed CSV (Opt_Out_Addresses_transformed.csv): its rows of cells
OutFile(rows) == [exists |-> TRUE, rows |-> rows]
NoOutFile == [exists |-> FALSE, rows |-> <<>>]

HeaderUpper == << <<"X">>, <<"Y">>, <<"T", "y", "p", "e">> >>
Header == << <<"x">>, <<"y">>, <<"T", "y", "p", "e">> >>
Residential == <<"R", "e", "s", "i", "d", "e", "n", "t", "i", "a", "l">>

LocalitySuffix == " Boulder CO"
Queries == {a \o LocalitySuffix : a \in Addresses}

\* ---------------------------------------------------------- main sequence
\* the steps __main__ (GSheetsEtl.process) calls after load()
PostSteps(v) ==
  CASE v = "Lab2ETL" -> <<>>
    [] v = "GSheetsETL_Lab2" -> <<"final_analysis">>
    [] v = "Lab3ETL" -> <<"exportMap">>
    [] v = "final_project" ->
         <<"set_spatial_reference", "apply_renderer", "join_and_filter", "exportMap">>
    [] OTHER ->
         <<"set_spatial_reference", "apply_renderer", "join_and_filter",
           "export_target_addresses_report", "exportMap">>

\* the call __main__ (GSheetsEtl.process) makes when extract() has returned, and
\* the one it makes when transform() has returned
AfterExtractSkipsTransform == "load"
AfterExtract == "transform"
AfterTransformHalts == "done"
AfterTransform == "load"

\* the first call of __main__: setup() in the scripts that define it
FirstStep(v) ==
  IF v \in {"Lab3ETL", "final_project", "final_project2"} THEN "setup" ELSE "extract"

\* whether the step's function wraps its body in try / except Exception
Catches(v, step) ==
  \/ v = "final_project2"
  \/ v = "final_project" /\ step \in {"set_spatial_reference", "apply_renderer", "join_and_filter"}

\* ------------------------------------------------------------------- state
VARIABLES
  variant,     \* which script runs
  remote,      \* the published sheet behind remote_url
  geo,         \* what the geocoding service answers for each query
  run,         \* "first" or "second" invocation of the script
  pc,          \* where the invocation is
  postIdx,     \* the next step after load
  inFile,      \* Opt_Out_Addresses.csv
  outFile,     \* Opt_Out_Addresses_transformed.csv
  locked,      \* another process holds the transformed file open (os.remove fails)
  inOpen,      \* transform holds the read handle
  outOpen,     \* transform holds the write handle
  rowIdx,      \* rows the DictReader has handed to the loop
  cur,         \* x, y of the row in hand
  loaded,      \* the rows this invocation's load put in Opt_Out_Address_Points
  log,         \* what was printed or logged in this invocation
  events,      \* this invocation's deletions, requests, sleeps and writes, in order
  answers,     \* what nominatim_geocode returned for each row geocoded in this pass
  emitted,     \* for each data row written in this pass, the input row it came from
  tret,        \* how transform went: none, running, locked, completed, raised
  extractFailed, \* requests.get raised in this invocation's extract
  logConfigured, \* logging.basicConfig has installed the wnv.log handler in this invocation
  outAtStart,  \* the transformed file as transform found it
  startLocked, \* transform found the file present and locked
  prev         \* the last invocation's input, answers and output, if its transform completed

vars ==
  <<variant, remote, geo, run, pc, postIdx, inFile, outFile, locked, inOpen, outOpen,
    rowIdx, cur, loaded, log, events, answers, emitted, tret, extractFailed,
    logConfigured, outAtStart, startLocked, prev>>

Ev(e, i) == [e |-> e, i |-> i]
XY(x, y) == [x |-> x, y |-> y]
NoPrev == [valid |-> FALSE, input |-> NoInFile, geo |-> <<>>, out |-> <<>>]
NotLoaded == [valid |-> FALSE, rows |-> <<>>]

Fresh ==
  /\ pc = FirstStep(variant)
  /\ postIdx = 1
  /\ inOpen = FALSE
  /\ outOpen = FALSE
  /\ rowIdx = 0
  /\ cur = XY(None, None)
  /\ log = <<>>
  /\ events = <<>>
  /\ answers = <<>>
  /\ emitted = <<>>
  /\ tret = "none"
  /\ extractFailed = FALSE
  /\ logConfigured = FALSE
  /\ outAtStart = NoOutFile
  /\ startLocked = FALSE

\* a first invocation in an empty working directory
Init ==
  /\ variant \in Variants
  /\ remote \in Sheets
  /\ geo \in [Queries -> PipelineResponses]
  /\ run = "first"
  /\ inFile = NoInFile
  /\ outFile = NoOutFile
  /\ locked = FALSE
  /\ loaded = NotLoaded
  /\ prev = NoPrev
  /\ Fresh


\* ------------------------------------------------------------ error reports
\* an exception leaving step: the step's own except clause prints
\* "[step] Error: ...", otherwise the interpreter prints the traceback and exits
ErrReport(v, step) ==
  IF Catches(v, step) THEN <<Msg("print", "[" \o step \o "] Error")>>
  ELSE <<Msg("stderr", "Traceback")>>

AfterRaise(v, step, next) == IF Catches(v, step) THEN next ELSE "crashed"

\* what print() and logging.info() calls leave behind: a printed message always
\* appears; an INFO record reaches wnv.log only through the handler basicConfig
\* installed, and without it the root logger (level WARNING) drops the record
Emit(msgs) == SelectSeq(msgs, LAMBDA m : m.chan # "logging" \/ logConfigured)

AfterLoad(v) == IF PostSteps(v) = <<>> THEN "done" ELSE "post"

\* ------------------------------------------------------------------- setup
\* setup(): logging.basicConfig opens wnv.log in proj_dir and installs its handler
SetupOk ==
  /\ pc = "setup"
  /\ logConfigured' = TRUE
  /\ pc' = "extract"
  /\ UNCHANGED <<variant, remote, geo, run, postIdx, inFile, outFile, locked, inOpen,
                 outOpen, rowIdx, cur, loaded, log, events, answers, emitted, tret,
                 extractFailed, outAtStart, startLocked, prev>>

\* setup(): logging.basicConfig raises (proj_dir does not exist) before any
\* handler is installed; final_project2 prints the error and goes on with
\* logging not configured, the other scripts exit with the traceback
SetupFail ==
  /\ pc = "setup"
  /\ log' = log \o ErrReport(variant, "setup")
  /\ pc' = AfterRaise(variant, "setup", "extract")
  /\ UNCHANGED <<variant, logConfigured, remote, geo, run, postIdx, inFile, outFile, locked, inOpen,
                 outOpen, rowIdx, cur, loaded, events, answers, emitted, tret,
                 extractFailed, outAtStart, startLocked, prev>>

\* ----------------------------------------------------------------- extract
\* extract(): requests.get answers and the body is written to the local CSV
ExtractOk ==
  /\ pc = "extract"
  /\ events' = Append(events, Ev("get_sheet", 0))
  /\ inFile' = remote
  /\ pc' = AfterExtract
  /\ UNCHANGED <<variant, logConfigured, remote, geo, run, postIdx, outFile, locked, inOpen, outOpen,
                 rowIdx, cur, loaded, log, answers, emitted, tret, extractFailed,
                 outAtStart, startLocked, prev>>

\* extract(): requests.get raises (the request cannot complete)
ExtractFail ==
  /\ pc = "extract"
  /\ events' = Append(events, Ev("get_sheet", 0))
  /\ extractFailed' = TRUE
  /\ log' = log \o ErrReport(variant, "extract")
  /\ pc' = AfterRaise(variant, "extract", AfterExtract)
  /\ UNCHANGED <<variant, logConfigured, remote, geo, run, postIdx, inFile, outFile, locked, inOpen,
                 outOpen, rowIdx, cur, loaded, answers, emitted, tret,
                 outAtStart, startLocked, prev>>

\* --------------------------------------------------------------- transform
\* os.path.exists(output_csv) and os.remove raising PermissionError
RemoveFails(file, isLocked) == file.exists /\ isLocked

\* the file after os.remove (if it existed) and open(output_csv, "w")
ClearedOutputAppend(file) == IF file.exists THEN file ELSE OutFile(<<>>)
ClearedOutput(file) == OutFile(<<>>)

WriteRowUnique(file, row) ==
  IF \E k \in 1..Len(file.rows) : file.rows[k] = row THEN file
  ELSE OutFile(Append(file.rows, row))

\* writer.writerow(row)
WriteRow(file, row) == OutFile(Append(file.rows, row))


\* the row dict csv.DictReader yields for data row i
DictReaderRow(file, i) ==
  IF file.hasCol THEN [c \in {"Street Address"} |-> file.cells[i]]
  ELSE [c \in {"Timestamp"} |-> file.cells[i]]

\* row["Street Address"] + " Boulder CO": the exception it raises, or the address
AddressOf(row) ==
  IF "Street Address" \notin DOMAIN row THEN [exc |-> "KeyError", address |-> ""]
  ELSE IF row["Street Address"].none THEN [exc |-> "TypeError", address |-> ""]
  ELSE [exc |-> "", address |-> row["Street Address"].text \o LocalitySuffix]

CleanDropsSign(s) == Remove(Remove(Remove(Strip(s), "'"), "\""), "-")

\* str(x).strip().replace("'", "").replace('"', '')
Clean(s) == Remove(Remove(Strip(s), "'"), "\"")

OutputRowSwapped(v, x, y) == [ok |-> TRUE, row |-> <<PyStr(y), PyStr(x), Residential>>]

\* lines 74-80: the row written for a returned pair, or ValueError (ok = FALSE);
\* GSheetsEtl writes the geocoder's floats as they are
OutputRow(v, x, y) ==
  IF v = "GSheetsETL_Lab2" THEN [ok |-> TRUE, row |-> <<PyStr(x), PyStr(y), Residential>>]
  ELSE LET cx == PyFloat(Clean(PyStr(x)))
           cy == PyFloat(Clean(PyStr(y)))
       IN  IF cx.ok /\ cy.ok THEN [ok |-> TRUE, row |-> <<PyStr(cx.v), PyStr(cy.v), Residential>>]
           ELSE [ok |-> FALSE, row |-> <<>>]

HasPairAlways(c) == TRUE

\* `if x is not None and y is not None`
HasPair(c) == c.x.kind # "None" /\ c.y.kind # "None"

SkipRowAndGoOn ==
  /\ UNCHANGED <<inOpen, outOpen, tret, log>>
  /\ pc' = "t_next"

RaiseLeavesFilesOpen ==
  /\ UNCHANGED <<inOpen, outOpen>>
  /\ tret' = "raised"
  /\ log' = log \o ErrReport(variant, "transform")
  /\ pc' = AfterRaise(variant, "transform", AfterTransform)

\* an exception leaves transform: both with-blocks close their files
RaiseFromTransform ==
  /\ inOpen' = FALSE
  /\ outOpen' = FALSE
  /\ tret' = "raised"
  /\ log' = log \o ErrReport(variant, "transform")
  /\ pc' = AfterRaise(variant, "transform", AfterTransform)

\* the old transformed file exists and cannot be removed: report and return
TransformLocked ==
  /\ pc = "transform"
  /\ RemoveFails(outFile, locked)
  /\ outAtStart' = outFile
  /\ startLocked' = (outFile.exists /\ locked)
  /\ events' = Append(events, Ev("remove", 0))
  /\ log' = log \o Emit(<<Msg(Channel(variant), "File is open or locked")>>)
  /\ tret' = "locked"
  /\ pc' = AfterTransform
  /\ UNCHANGED <<variant, logConfigured, remote, geo, run, postIdx, inFile, outFile, locked, inOpen,
                 outOpen, rowIdx, cur, loaded, answers, emitted, extractFailed, prev>>

\* the old file is removed, the new one opened for writing, the header written
TransformStart ==
  /\ pc = "transform"
  /\ ~RemoveFails(outFile, locked)
  /\ outAtStart' = outFile
  /\ startLocked' = (outFile.exists /\ locked)
  /\ events' = events \o (IF outFile.exists THEN <<Ev("remove", 0)>> ELSE <<>>)
                      \o <<Ev("open_w", 0), Ev("writerow", 0)>>
  /\ outFile' = WriteRow(ClearedOutput(outFile), Header)
  /\ outOpen' = TRUE
  /\ tret' = "running"
  /\ pc' = "t_open_in"
  /\ UNCHANGED <<variant, logConfigured, remote, geo, run, postIdx, inFile, locked, inOpen,
                 rowIdx, cur, loaded, log, answers, emitted, extractFailed, prev>>

\* open(input_csv, "r") and csv.DictReader
TransformOpenInput ==
  /\ pc = "t_open_in"
  /\ inFile.exists
  /\ inOpen' = TRUE
  /\ events' = Append(events, Ev("open_r", 0))
  /\ pc' = "t_next"
  /\ UNCHANGED <<variant, logConfigured, remote, geo, run, postIdx, inFile, outFile, locked, outOpen,
                 rowIdx, cur, loaded, log, answers, emitted, tret, extractFailed,
                 outAtStart, startLocked, prev>>

\* open(input_csv, "r") raises FileNotFoundError
TransformInputMissing ==
  /\ pc = "t_open_in"
  /\ ~inFile.exists
  /\ RaiseFromTransform
  /\ UNCHANGED <<variant, logConfigured, remote, geo, run, postIdx, inFile, outFile, locked,
                 rowIdx, cur, loaded, events, answers, emitted, extractFailed,
                 outAtStart, startLocked, prev>>

\* the loop takes the next row, builds the address and calls the geocoder
TransformGeocode ==
  /\ pc = "t_next"
  /\ rowIdx < Len(inFile.cells)
  /\ \E a \in {AddressOf(DictReaderRow(inFile, rowIdx + 1))} :
         /\ a.exc = ""
         /\ \E r \in {nominatim_geocode(variant, geo[a.address])} :
                /\ rowIdx' = rowIdx + 1
                /\ events' = Append(events, Ev("request", rowIdx + 1))
                /\ IF r.raised = ""
                   THEN /\ cur' = XY(r.x, r.y)
                        /\ answers' = Append(answers, XY(r.x, r.y))
                        /\ log' = log \o Emit(r.msgs)
                        /\ pc' = "t_sleep"
                        /\ UNCHANGED <<inOpen, outOpen, tret>>
                   ELSE /\ RaiseFromTransform
                        /\ UNCHANGED <<cur, answers>>
  /\ UNCHANGED <<variant, logConfigured, remote, geo, run, postIdx, inFile, outFile, locked,
                 loaded, emitted, extractFailed, outAtStart, startLocked, prev>>

\* the loop takes the next row and row["Street Address"] + " Boulder CO" raises
TransformRowRaises ==
  /\ pc = "t_next"
  /\ rowIdx < Len(inFile.cells)
  /\ AddressOf(DictReaderRow(inFile, rowIdx + 1)).exc # ""
  /\ rowIdx' = rowIdx + 1
  /\ RaiseFromTransform
  /\ UNCHANGED <<variant, logConfigured, remote, geo, run, postIdx, inFile, outFile, locked,
                 cur, loaded, events, answers, emitted, extractFailed,
                 outAtStart, startLocked, prev>>

\* time.sleep(1) after the geocoder returned c for row i: unconditional
SleepOnlyIfFound(c, i) == IF HasPair(c) THEN <<Ev("sleep", i)>> ELSE <<>>
Sleep(c, i) == <<Ev("sleep", i)>>

\* time.sleep(1)
TransformSleep ==
  /\ pc = "t_sleep"
  /\ events' = events \o Sleep(cur, rowIdx)
  /\ pc' = "t_emit"
  /\ UNCHANGED <<variant, logConfigured, remote, geo, run, postIdx, inFile, outFile, locked, inOpen,
                 outOpen, rowIdx, cur, loaded, log, answers, emitted, tret, extractFailed,
                 outAtStart, startLocked, prev>>

\* lines 74-80: write the row if a pair came back
TransformEmit ==
  /\ pc = "t_emit"
  /\ IF HasPair(cur)
     THEN \E o \in {OutputRow(variant, cur.x, cur.y)} :
              IF o.ok
              THEN /\ outFile' = WriteRow(outFile, o.row)
                   /\ emitted' = Append(emitted, rowIdx)
                   /\ events' = Append(events, Ev("writerow", rowIdx))
                   /\ UNCHANGED log
              ELSE /\ log' = log \o Emit(<<Msg(Channel(variant), "Skipping invalid coordinates")>>)
                   /\ UNCHANGED <<outFile, emitted, events>>
     ELSE UNCHANGED <<outFile, emitted, events, log>>
  /\ pc' = "t_next"
  /\ UNCHANGED <<variant, logConfigured, remote, geo, run, postIdx, inFile, locked, inOpen,
                 outOpen, rowIdx, cur, loaded, answers, tret, extractFailed,
                 outAtStart, startLocked, prev>>

\* the input is exhausted: both with-blocks close, transform returns
TransformLoopEnd ==
  /\ pc = "t_next"
  /\ rowIdx = Len(inFile.cells)
  /\ inOpen' = FALSE
  /\ outOpen' = FALSE
  /\ tret' = "completed"
  /\ pc' = AfterTransform
  /\ UNCHANGED <<variant, logConfigured, remote, geo, run, postIdx, inFile, outFile, locked,
                 rowIdx, cur, loaded, log, events, answers, emitted, extractFailed,
                 outAtStart, startLocked, prev>>

\* -------------------------------------------------------------------- load
\* arcpy.management.XYTableToPoint reads the transformed CSV into the feature class
LoadOk ==
  /\ pc = "load"
  /\ outFile.exists
  /\ loaded' = [valid |-> TRUE, rows |-> Tail(outFile.rows)]
  /\ events' = Append(events, Ev("load", 0))
  /\ pc' = AfterLoad(variant)
  /\ UNCHANGED <<variant, logConfigured, remote, geo, run, postIdx, inFile, outFile, locked, inOpen,
                 outOpen, rowIdx, cur, log, answers, emitted, tret, extractFailed,
                 outAtStart, startLocked, prev>>

\* the toolkit call raises (no table, no workspace, no licence)
LoadFail ==
  /\ pc = "load"
  /\ events' = Append(events, Ev("load", 0))
  /\ log' = log \o ErrReport(variant, "load")
  /\ pc' = AfterRaise(variant, "load", AfterLoad(variant))
  /\ UNCHANGED <<variant, logConfigured, remote, geo, run, postIdx, inFile, outFile, locked, inOpen,
                 outOpen, rowIdx, cur, loaded, answers, emitted, tret, extractFailed,
                 outAtStart, startLocked, prev>>

\* ------------------------------------------------------ steps after load
AfterPost(v, k) == IF k = Len(PostSteps(v)) THEN "done" ELSE "post"

\* a step after load is called and returns (its toolkit calls succeeded)
PostOk ==
  /\ pc = "post"
  /\ events' = Append(events, Ev(PostSteps(variant)[postIdx], 0))
  /\ postIdx' = postIdx + 1
  /\ pc' = AfterPost(variant, postIdx)
  /\ UNCHANGED <<variant, logConfigured, remote, geo, run, inFile, outFile, locked, inOpen,
                 outOpen, rowIdx, cur, loaded, log, answers, emitted, tret,
                 extractFailed, outAtStart, startLocked, prev>>

\* a step after load is called and a toolkit call in it raises: the step's
\* except clause, if it has one, prints "[step] Error: ..." and returns
PostFail ==
  /\ pc = "post"
  /\ events' = Append(events, Ev(PostSteps(variant)[postIdx], 0))
  /\ log' = log \o ErrReport(variant, PostSteps(variant)[postIdx])
  /\ postIdx' = postIdx + 1
  /\ pc' = AfterRaise(variant, PostSteps(variant)[postIdx], AfterPost(variant, postIdx))
  /\ UNCHANGED <<variant, logConfigured, remote, geo, run, inFile, outFile, locked, inOpen,
                 outOpen, rowIdx, cur, loaded, answers, emitted, tret,
                 extractFailed, outAtStart, startLocked, prev>>

\* ------------------------------------------------------ a second invocation
\* the script is started again in the same working directory; in between,
\* another program may have opened the transformed file, or closed it
Restart ==
  /\ pc \in {"done", "crashed"}
  /\ run = "first"
  /\ run' = "second"
  /\ prev' = IF tret = "completed"
             THEN [valid |-> TRUE, input |-> inFile, geo |-> geo, out |-> outFile.rows]
             ELSE NoPrev
  /\ locked' \in (IF outFile.exists THEN BOOLEAN ELSE {FALSE})
  /\ pc' = FirstStep(variant)
  /\ postIdx' = 1
  /\ inOpen' = FALSE
  /\ outOpen' = FALSE
  /\ rowIdx' = 0
  /\ cur' = XY(None, None)
  /\ log' = <<>>
  /\ events' = <<>>
  /\ answers' = <<>>
  /\ emitted' = <<>>
  /\ tret' = "none"
  /\ extractFailed' = FALSE
  /\ outAtStart' = NoOutFile
  /\ startLocked' = FALSE
  /\ loaded' = NotLoaded
  /\ logConfigured' = FALSE
  /\ UNCHANGED <<variant, inFile, outFile>>

\* started again with nothing changed outside
Rerun ==
  /\ Restart
  /\ UNCHANGED <<remote, geo>>

\* started again after a new form submission reached the sheet
RerunSheetEdited ==
  /\ Restart
  /\ remote.hasCol
  /\ Len(remote.cells) < MaxRows
  /\ \E a \in Addresses : remote' = InFile(TRUE, Append(remote.cells, Cell(a)))
  /\ UNCHANGED geo

\* the service's new answer for a query: an address it knew is gone, any other is found
ChangedAnswer(r) ==
  IF r = RespFound(JStr(TokLonA), JStr(TokLatA)) THEN RespEmpty
  ELSE RespFound(JStr(TokLonA), JStr(TokLatA))

\* started again after the service changed its answer for one query
RerunGeocoderChanged ==
  /\ Restart
  /\ \E q \in Queries : geo' = [geo EXCEPT ![q] = ChangedAnswer(geo[q])]
  /\ UNCHANGED remote

Next ==
  \/ SetupOk
  \/ SetupFail
  \/ ExtractOk
  \/ ExtractFail
  \/ TransformLocked
  \/ TransformStart
  \/ TransformOpenInput
  \/ TransformInputMissing
  \/ TransformGeocode
  \/ TransformRowRaises
  \/ TransformSleep
  \/ TransformEmit
  \/ TransformLoopEnd
  \/ LoadOk
  \/ LoadFail
  \/ PostOk
  \/ Rerun
  \/ RerunSheetEdited
  \/ RerunGeocoderChanged

\* runs in which the toolkit steps after load succeed (they touch neither CSV
\* file)
Spec == Init /\ [][Next]_vars

\* ------------------------------------------- the main sequence under failure
\* every step of __main__ may fail, those after load included, over sheets of
\* at most one row and a service that answers every query alike
InitMain ==
  /\ variant \in Variants
  /\ remote \in {InFile(TRUE, <<>>), InFile(TRUE, <<Cell("1 Main St")>>), InFile(FALSE, <<NoneCell>>)}
  /\ geo \in {[q \in Queries |-> r] : r \in {RespEmpty, RespFound(JStr(TokLonA), JStr(TokLatA))}}
  /\ run = "first"
  /\ inFile = NoInFile
  /\ outFile = NoOutFile
  /\ locked = FALSE
  /\ loaded = NotLoaded
  /\ prev = NoPrev
  /\ Fresh

NextMain ==
  \/ Next
  \/ PostFail

SpecMain == InitMain /\ [][NextMain]_vars


\* whether logging is configured once setup is behind: the scripts without
\* setup never configure it, a script that catches setup's exception goes on
\* either way, the others go on only when setup succeeded
ConfiguredAfterSetup(v) ==
  IF FirstStep(v) # "setup" THEN {FALSE}
  ELSE IF Catches(v, "setup") THEN BOOLEAN
  ELSE {TRUE}

\* ------------------------------------------- transform on its own
\* transform called once, right after extract, for every sheet, every set of
\* answers, and every state an earlier run can have left the transformed file
\* in (absent, header only, header and a row; locked or not); final_project2
\* also calls it when its extract failed, and then the downloaded file is
\* absent or the one an earlier run left, and when its setup failed, and then
\* logging is not configured
StaleFiles ==
  { OutFile(<<Header>>),
    OutFile(<<Header, <<PyStr(PyFloat(TokLonA).v), PyStr(PyFloat(TokLatA).v), Residential>> >>) }

\* downloads an earlier run can have left: no data row, a row, two rows, a
\* short row, a document without the column
StaleInputs ==
  { InFile(TRUE, <<>>),
    InFile(TRUE, <<Cell("1 Main St")>>),
    InFile(TRUE, <<Cell("2 Pine St"), Cell("1 Main St")>>),
    InFile(TRUE, <<NoneCell>>),
    InFile(FALSE, <<NoneCell>>) }

\* the answers transform is checked against: those of the pipeline runs, the
\* body {}, and coordinates that str() writes in exponent notation
TransformResponses ==
  PipelineResponses \cup {RespJSONObject, RespFound(JStr(TokExp), JStr(TokCR))}

InitTransform ==
  /\ variant \in Variants
  /\ remote \in Sheets
  /\ extractFailed \in (IF Catches(variant, "extract") THEN BOOLEAN ELSE {FALSE})
  /\ inFile \in (IF extractFailed THEN {NoInFile} \cup StaleInputs ELSE {remote})
  /\ geo \in [Queries -> TransformResponses]
  /\ outFile \in {NoOutFile} \cup StaleFiles
  /\ locked \in (IF outFile.exists THEN BOOLEAN ELSE {FALSE})
  /\ run = (IF outFile.exists THEN "second" ELSE "first")
  /\ loaded = NotLoaded
  /\ prev = NoPrev
  /\ pc = AfterExtract
  /\ postIdx = 1
  /\ inOpen = FALSE
  /\ outOpen = FALSE
  /\ rowIdx = 0
  /\ cur = XY(None, None)
  /\ logConfigured \in ConfiguredAfterSetup(variant)
  /\ log = (IF FirstStep(variant) = "setup" /\ ~logConfigured
            THEN ErrReport(variant, "setup") ELSE <<>>)
             \o (IF extractFailed THEN ErrReport(variant, "extract") ELSE <<>>)
  /\ events = <<Ev("get_sheet", 0)>>
  /\ answers = <<>>
  /\ emitted = <<>>
  /\ tret = "none"
  /\ outAtStart = NoOutFile
  /\ startLocked = FALSE

NextTransform ==
  \/ TransformLocked
  \/ TransformStart
  \/ TransformOpenInput
  \/ TransformInputMissing
  \/ TransformGeocode
  \/ TransformRowRaises
  \/ TransformSleep
  \/ TransformEmit
  \/ TransformLoopEnd

SpecTransform == InitTransform /\ [][NextTransform]_vars

\* ------------------------------------------- the geocoder on its own
\* nominatim_geocode called once, for every outcome of its HTTP request
InitGeocode ==
  /\ variant \in Variants
  /\ remote = NoInFile
  /\ geo \in {[q \in Queries |-> r] : r \in AllResponses}
  /\ run = "first"
  /\ inFile = NoInFile
  /\ outFile = NoOutFile
  /\ locked = FALSE
  /\ loaded = NotLoaded
  /\ prev = NoPrev
  /\ postIdx = 1
  /\ inOpen = FALSE
  /\ outOpen = FALSE
  /\ rowIdx = 0
  /\ cur = XY(None, None)
  /\ log = <<>>
  /\ events = <<>>
  /\ answers = <<>>
  /\ emitted = <<>>
  /\ tret = "none"
  /\ extractFailed = FALSE
  /\ logConfigured \in ConfiguredAfterSetup(variant)
  /\ outAtStart = NoOutFile
  /\ startLocked = FALSE
  /\ pc = "geocode"

GeocodeCall ==
  /\ pc = "geocode"
  /\ \E q \in Queries :
       \E r \in {nominatim_geocode(variant, geo[q])} :
           /\ cur' = XY(r.x, r.y)
           /\ log' = Emit(r.msgs)
           /\ tret' = IF r.raised = "" THEN "returned" ELSE r.raised
  /\ events' = <<Ev("request", 0)>>
  /\ pc' = "called"
  /\ UNCHANGED <<variant, logConfigured, remote, geo, run, postIdx, inFile, outFile, locked, inOpen,
                 outOpen, rowIdx, loaded, answers, emitted, extractFailed,
                 outAtStart, startLocked, prev>>


SpecGeocode == InitGeocode /\ [][GeocodeCall]_vars

\* ------------------------------------------------------------------ claims
InPass == tret \in {"running", "completed", "raised"}
Ended == tret \in {"completed", "raised"}

\* the data rows of the output that came from input row i
RowsFrom(i) == {k \in 1..Len(emitted) : emitted[k] = i}

EventsOf(kinds) == SelectSeq(events, LAMBDA ev : ev.e \in kinds)

\* C1: in a pass, every input row for which the geocoder returned a pair has, once
\* its loop body is over, exactly one output row, which is (str of lon as float,
\* str of lat as float, Residential); and every data row of the output is the row
\* of some input row for which the geocoder returned that pair.
C1_ResolvedRowsWritten ==
  InPass =>
    /\ Len(outFile.rows) = Len(emitted) + 1
    /\ \A i \in 1..Len(answers) :
         ((i < rowIdx \/ (i = rowIdx /\ pc \notin {"t_sleep", "t_emit"})) /\ answers[i].x.kind # "None" /\ answers[i].y.kind # "None")
           => Cardinality(RowsFrom(i)) = 1
    /\ \A k \in 1..Len(emitted) :
         /\ emitted[k] \in 1..Len(answers)
         /\ answers[emitted[k]].x.kind = "float"
         /\ answers[emitted[k]].y.kind = "float"
         /\ outFile.rows[k + 1] =
              <<PyStr(answers[emitted[k]].x), PyStr(answers[emitted[k]].y),
                <<"R", "e", "s", "i", "d", "e", "n", "t", "i", "a", "l">> >>

C1_Witness ==
  /\ variant = "Lab2ETL"
  /\ tret = "completed"
  /\ Len(answers) = 2
  /\ outFile.rows[Len(outFile.rows)] =
       << <<"-", "1", "0", "5", ".", "3">>, <<"4", "0", ".", "5">>, Residential >>

\* C2: a row for which the geocoder returned (None, None) has no output row, and
\* at every point of a pass the output holds at most as many data rows as rows
\* were resolved, which is at most the number of input rows consumed.
C2_NotFoundDropped ==
  InPass =>
    /\ Len(outFile.rows) - 1 <= Cardinality({i \in 1..Len(answers) : answers[i].x.kind # "None"})
    /\ Len(outFile.rows) - 1 <= rowIdx
    /\ Len(answers) <= rowIdx
    /\ \A i \in 1..Len(answers) :
         (answers[i].x.kind = "None" /\ answers[i].y.kind = "None") => RowsFrom(i) = {}

C2_Witness ==
  /\ tret = "completed"
  /\ Len(answers) = 2
  /\ answers[1].x.kind = "None"
  /\ emitted = <<2>>
  /\ Len(outFile.rows) = 2

\* C3 (the claim as stated): in every variant, when transform finds the output
\* file present and locked, it returns at once: one removal attempt, no
\* request, no sleep, no open, no header, no row, the file as it was, and the
\* locked-file condition reported (printed, or recorded in wnv.log).
C3_LockedAborts ==
  startLocked =>
    /\ tret = "locked"
    /\ outFile = outAtStart
    /\ EventsOf({"request", "sleep", "open_w", "writerow"}) = <<>>
    /\ Len(EventsOf({"remove"})) = 1
    /\ \E j \in 1..Len(log) : log[j].text = "File is open or locked"
    /\ rowIdx = 0
    /\ ~outOpen /\ ~inOpen

\* the request succeeded with a first result whose lon and lat both parse
GeoParses(d, k) == k \in DOMAIN d /\ d[k].t = "str" /\ PyFloat(d[k].s).ok
GeoSuccess(resp) ==
  /\ resp.kind = "JSONList"
  /\ resp.results # <<>>
  /\ GeoParses(resp.results[1], "lon")
  /\ GeoParses(resp.results[1], "lat")

\* C4: nominatim_geocode lets no exception through; it returns a pair of floats
\* exactly when the request succeeded with a JSON list whose first result has
\* lon and lat that both parse, and (None, None) for every other outcome.
C4_GeocodeNeverRaises ==
  pc = "called" =>
    \A q \in Queries :
      /\ tret = "returned"
      /\ IF GeoSuccess(geo[q])
         THEN cur = XY(PyFloat(geo[q].results[1]["lon"].s).v, PyFloat(geo[q].results[1]["lat"].s).v)
         ELSE cur = XY(None, None)
      /\ (cur.x.kind = "float" /\ cur.y.kind = "float") <=> GeoSuccess(geo[q])

C4_Witness ==
  /\ pc = "called"
  /\ tret = "returned"
  /\ cur = XY(None, None)
  /\ \E q \in Queries :
       /\ geo[q].kind = "JSONList"
       /\ geo[q].results # <<>>
       /\ DOMAIN geo[q].results[1] = {"lon", "lat"}
       /\ geo[q].results[1]["lon"] = JStr(TokLonA)
       /\ geo[q].results[1]["lat"] = JStr(TokQuoted)

\* C5 (the claim as stated): after extract's request failed, in every variant,
\* the run halts: transform is never started, load is never started, and the
\* request was made once.
C5_FailedExtractHalts ==
  extractFailed =>
    /\ tret = "none"
    /\ EventsOf({"load"}) = <<>>
    /\ Len(EventsOf({"get_sheet"})) = 1

\* the input rows whose `Street Address` cannot be read
BadRows == {i \in 1..Len(inFile.cells) : AddressOf(DictReaderRow(inFile, i)).exc # ""}
FirstBad == IF BadRows = {} THEN Len(inFile.cells) + 1
            ELSE CHOOSE i \in BadRows : \A j \in BadRows : i <= j

\* C6 (the claim as stated): once the pass over the input has ended, each input
\* data row has caused exactly one geocoder request and exactly one sleep.
C6_EveryRowOneRequestOneSleep ==
  Ended =>
    \A i \in 1..Len(inFile.cells) :
      /\ Len(SelectSeq(events, LAMBDA ev : ev = Ev("request", i))) = 1
      /\ Len(SelectSeq(events, LAMBDA ev : ev = Ev("sleep", i))) = 1

\* C6 (amended): in a pass the requests and sleeps alternate, one request then
\* one sleep for each row handed to the geocoder, in row order, whatever the
\* lookup returned, and no row is requested twice; the rows handed to the
\* geocoder are the rows before the first one whose `Street Address` cannot be
\* read: that row and every later row cause no request and no sleep, and a
\* pass that completes has requested and slept for every input row.
C6_OneRequestOneSleepUpToBadRow ==
  InPass =>
    LET rs == EventsOf({"request", "sleep"})
    IN  /\ Len(rs) = 2 * Len(answers) - (IF pc = "t_sleep" THEN 1 ELSE 0)
        /\ \A j \in 1..Len(rs) :
             /\ rs[j].e = (IF j % 2 = 1 THEN "request" ELSE "sleep")
             /\ rs[j].i = (j + 1) \div 2
        /\ Len(answers) <= FirstBad - 1
        /\ Ended => Len(rs) = 2 * (FirstBad - 1)
        /\ tret = "completed" => Len(EventsOf({"request"})) = Len(inFile.cells)

\* a failed lookup is slept after, and the short row that follows ends the pass
\* without a request
C6_Witness ==
  /\ tret = "raised"
  /\ Len(inFile.cells) = 2
  /\ inFile.cells[2].none
  /\ answers = <<XY(None, None)>>
  /\ EventsOf({"request", "sleep"}) = <<Ev("request", 1), Ev("sleep", 1)>>

\* C7 (the claim as stated): every data row of the output has two coordinates
\* that parse as finite floats.
C7_OutputCoordinatesFinite ==
  \A k \in 2..Len(outFile.rows) :
    /\ PyFloat(outFile.rows[k][1]).ok /\ IsFinite(PyFloat(outFile.rows[k][1]).v)
    /\ PyFloat(outFile.rows[k][2]).ok /\ IsFinite(PyFloat(outFile.rows[k][2]).v)

\* C8 (the claim as stated): a row whose field is missing is skipped and the
\* pass goes on: once transform has ended, every input row with an address has
\* been geocoded.
C8_BadRowOnlySkipped ==
  Ended =>
    \A i \in (1..Len(inFile.cells)) \ BadRows :
      \E j \in 1..Len(events) : events[j] = Ev("request", i)

\* C8 (amended): a row whose coordinates do not parse is skipped and the pass
\* goes on to the later rows, which are written if resolved; a row whose
\* `Street Address` is missing raises and ends the pass: exactly the rows before
\* the first such row are geocoded, and the pass completes only if there is none.
C8_BadCoordinateSkippedMissingFieldEnds ==
  Ended =>
    /\ Len(answers) = FirstBad - 1
    /\ EventsOf({"request"}) = [i \in 1..(FirstBad - 1) |-> Ev("request", i)]
    /\ (tret = "completed") <=> (inFile.exists /\ BadRows = {})
    /\ \A i \in 1..Len(answers) : answers[i].x.kind = "float" => RowsFrom(i) # {}

C8_Witness ==
  /\ tret = "raised"
  /\ rowIdx = 2
  /\ Len(answers) = 1
  /\ geo[inFile.cells[1].text \o " Boulder CO"] = RespFound(JStr(TokAbc), JStr(TokLatA))
  /\ inFile.cells[2].none

\* the service answers this input's addresses as it did in the first run
SameAnswers ==
  \A i \in 1..Len(inFile.cells) :
    AddressOf(DictReaderRow(inFile, i)).exc = ""
      => geo[AddressOf(DictReaderRow(inFile, i)).address]
           = prev.geo[AddressOf(DictReaderRow(inFile, i)).address]

\* C9: a second run whose transform completes, on the input the first run
\* transformed and with the same answers for its addresses, leaves the output
\* file the first run left; the old file is removed and the new one holds only
\* the header and the rows written in this pass.
C9_TransformIdempotent ==
  (run = "second" /\ tret = "completed" /\ prev.valid) =>
    /\ (prev.input = inFile /\ SameAnswers) => outFile.rows = prev.out
    /\ Len(EventsOf({"remove"})) = 1
    /\ Len(outFile.rows) = 1 + Len(EventsOf({"request"}))
                             - Cardinality({i \in 1..Len(answers) : answers[i].x.kind = "None"})

C9_Witness ==
  /\ run = "second"
  /\ tret = "completed"
  /\ prev.valid
  /\ prev.input = inFile
  /\ SameAnswers
  /\ Len(prev.out) = 3
  /\ outFile.rows = prev.out

\* C10: a completed pass over an input with no data rows makes no request and no
\* sleep and leaves exactly the header row x,y,Type; in every pass the header is
\* the first row of the file, written once, before any data row.
C10_HeaderOnlyAndFirst ==
  /\ (tret = "completed" /\ Len(inFile.cells) = 0) =>
       /\ outFile.rows = << << <<"x">>, <<"y">>, <<"T", "y", "p", "e">> >> >>
       /\ EventsOf({"request", "sleep"}) = <<>>
  /\ InPass =>
       /\ Len(outFile.rows) >= 1
       /\ outFile.rows[1] = << <<"x">>, <<"y">>, <<"T", "y", "p", "e">> >>
       /\ \A k \in 2..Len(outFile.rows) : outFile.rows[k][3] = Residential
       /\ LET ws == EventsOf({"writerow"})
          IN  /\ Len(ws) = Len(outFile.rows)
              /\ ws[1].i = 0
              /\ \A j \in 2..Len(ws) : ws[j].i > 0

C10_Witness ==
  /\ tret = "completed"
  /\ inFile.exists
  /\ inFile.hasCol
  /\ Len(inFile.cells) = 0
  /\ outFile.rows = <<Header>>

\* the input rows geocoded so far whose request came back as HTTP success with []
EmptyAnswered ==
  {i \in 1..Len(answers) :
     geo[AddressOf(DictReaderRow(inFile, i)).address] = Resp("JSONList", <<>>)}

\* C11 (the claim as stated): in every variant, each row whose request came
\* back as HTTP success with an empty array has no output row, and one "not
\* found" report was printed or logged for each such row.
C11_EmptyResultReported ==
  InPass =>
    /\ \A i \in EmptyAnswered : RowsFrom(i) = {} /\ answers[i] = XY(None, None)
    /\ Cardinality({j \in 1..Len(log) : log[j].text = "No results found"})
         = Cardinality(EmptyAnswered)

\* the step of the main sequence an event belongs to: 1 extract, 2 transform,
\* 3 load, 4 the analysis and export steps after load
StepOf(e) ==
  CASE e = "get_sheet" -> 1
    [] e \in {"remove", "open_w", "open_r", "writerow", "request", "sleep"} -> 2
    [] e = "load" -> 3
    [] OTHER -> 4

\* the analysis and export steps called so far, in call order
PostCalls == [j \in 1..Len(SelectSeq(events, LAMBDA ev : StepOf(ev.e) = 4)) |->
                SelectSeq(events, LAMBDA ev : StepOf(ev.e) = 4)[j].e]

\* C12: in one invocation the steps run in the order extract, transform, load,
\* analysis/export, each entered at most once: no event of a step follows an
\* event of a later step; extract, the removal, the open for writing and load
\* happen at most once; transform has started only after extract was called,
\* load only after transform has returned with its files closed, and the steps
\* after load only after load, in the order of the main sequence, none twice.
C12_StrictStepOrder ==
  /\ \A j, k \in 1..Len(events) : j < k => StepOf(events[j].e) <= StepOf(events[k].e)
  /\ \A e \in {"get_sheet", "remove", "open_w", "open_r", "load"} : Len(EventsOf({e})) <= 1
  /\ tret # "none" => Len(EventsOf({"get_sheet"})) = 1
  /\ tret = "running" => EventsOf({"load"}) = <<>>
  /\ EventsOf({"load"}) # <<>> =>
       /\ tret \in {"locked", "completed", "raised"}
       /\ ~inOpen /\ ~outOpen
  /\ (pc = "post" \/ PostCalls # <<>>) => Len(EventsOf({"load"})) = 1
  /\ PostCalls = SubSeq(PostSteps(variant), 1, postIdx - 1)
  /\ pc = "done" => /\ Len(EventsOf({"get_sheet"})) = 1
                    /\ tret # "none"
                    /\ Len(EventsOf({"load"})) = 1
                    /\ PostCalls = PostSteps(variant)

C12_Witness ==
  /\ variant = "final_project2"
  /\ pc = "done"
  /\ tret = "completed"
  /\ Len(EventsOf({"request"})) = 1
  /\ PostCalls = <<"set_spatial_reference", "apply_renderer", "join_and_filter",
                   "export_target_addresses_report", "exportMap">>

\* C13 (the claim as stated): in final_project and final_project2, once load has
\* been called, no failure of load or of a later step ends the run: nothing
\* reaches the interpreter's traceback, every failure so far was printed by its
\* step, and a run that stopped has called every step after load.
C13_LaterStepsRunAfterFailure ==
  (variant \in {"final_project", "final_project2"} /\ EventsOf({"load"}) # <<>>) =>
    /\ pc # "crashed"
    /\ \A j \in 1..Len(log) : log[j].chan # "stderr"
    /\ pc \notin {"load", "post"} => PostCalls = PostSteps(variant)

\* C14: outside a running transform no file is open: once transform has
\* returned (locked, completed) or an exception has left it (input missing,
\* `Street Address` missing, in the middle of the loop), the read handle and the
\* write handle are both closed; while it runs, the write handle is open, the
\* read handle is open from the open of the input on, and each file was opened
\* at most once.
C14_HandlesClosedWhenTransformEnds ==
  /\ tret \in {"none", "locked", "completed", "raised"} => ~inOpen /\ ~outOpen
  /\ pc \notin {"t_open_in", "t_next", "t_sleep", "t_emit"} => ~inOpen /\ ~outOpen
  /\ tret = "running" => outOpen /\ (inOpen <=> pc # "t_open_in")
  /\ inOpen => EventsOf({"open_r"}) = <<Ev("open_r", 0)>>
  /\ outOpen => EventsOf({"open_w"}) = <<Ev("open_w", 0)>>
  /\ Len(EventsOf({"open_r"})) <= 1
  /\ Len(EventsOf({"open_w"})) <= 1

C14_Witness ==
  /\ tret = "raised"
  /\ inFile.exists
  /\ ~inFile.hasCol
  /\ rowIdx = 1
  /\ EventsOf({"open_w", "open_r"}) = <<Ev("open_w", 0), Ev("open_r", 0)>>
  /\ ~inOpen
  /\ ~outOpen

\* C15: when transform returned at once because the old output file was
\* locked, the run goes on: the call after the failed removal is load, nothing
\* else happens in between, and what load reads into the feature class is the
\* data rows of the file as the earlier run left it.
C15_LockedThenLoadReadsStaleFile ==
  startLocked =>
    /\ run = "second"
    /\ pc = "load" \/ Len(EventsOf({"load"})) = 1
    /\ SubSeq(events, 1, 2) = <<Ev("get_sheet", 0), Ev("remove", 0)>>
    /\ Len(events) > 2 => events[3] = Ev("load", 0)
    /\ loaded.valid => loaded.rows = Tail(outAtStart.rows)
    /\ outFile = outAtStart

\* the points loaded are those of the earlier input, not of the sheet just fetched
C15_Witness ==
  /\ startLocked
  /\ loaded.valid
  /\ prev.valid
  /\ Len(prev.input.cells) = 1
  /\ Len(inFile.cells) = 2
  /\ loaded.rows = Tail(prev.out)
  /\ Len(loaded.rows) = 1
  /\ \A q \in Queries : GeoSuccess(geo[q])

\* for each answer of the service, the coordinates row of an input row it
\* resolves (the service's lon and lat as floats), and nothing for an answer
\* that resolves no row
CoordinatesRows ==
  [r \in AllResponses \cup TransformResponses |->
     IF GeoSuccess(r)
     THEN << <<PyStr(PyFloat(r.results[1]["lon"].s).v),
               PyStr(PyFloat(r.results[1]["lat"].s).v), Residential>> >>
     ELSE <<>>]

\* what the loop has made of input rows 1..n: the rows the service does not
\* resolve removed and each other row replaced by its coordinates row, up to
\* the first row whose `Street Address` cannot be read, where the loop stops
RECURSIVE ResolvedRows(_)
ResolvedRows(n) ==
  IF n = 0 THEN <<>>
  ELSE IF n >= FirstBad THEN ResolvedRows(FirstBad - 1)
  ELSE ResolvedRows(n - 1) \o CoordinatesRows[geo[AddressOf(DictReaderRow(inFile, n)).address]]

\* the input rows whose loop body is over
RowsDone == IF pc \in {"t_sleep", "t_emit"} THEN rowIdx - 1 ELSE rowIdx

\* C16 (the claim as stated): once the pass has ended, the data rows of the
\* output are the input sequence with the unresolvable rows removed (a row
\* without an address among them) and each remaining row replaced by its
\* coordinates.
C16_OutputIsFilteredInput ==
  Ended =>
    LET kept == SelectSeq([i \in 1..Len(inFile.cells) |-> i],
                  LAMBDA i :
                    /\ AddressOf(DictReaderRow(inFile, i)).exc = ""
                    /\ GeoSuccess(geo[AddressOf(DictReaderRow(inFile, i)).address]))
    IN  Tail(outFile.rows) =
          [k \in 1..Len(kept) |->
             CoordinatesRows[geo[AddressOf(DictReaderRow(inFile, kept[k])).address]][1]]

\* C16 (amended): at every point of a pass the data rows of the output are the
\* input rows handled so far, in input order, with the unresolvable rows
\* removed and each other row replaced by its coordinates; the input rows the
\* output rows came from are strictly increasing; nothing is merged, so two
\* input rows with the same address give two output rows; and once the pass
\* has ended, the rows handled are those before the first row whose `Street
\* Address` cannot be read, which is the whole input only when there is no
\* such row.
C16_OutputKeepsInputOrderUpToBadRow ==
  InPass =>
    /\ Tail(outFile.rows) = ResolvedRows(RowsDone)
    /\ \A k, l \in 1..Len(emitted) : k < l => emitted[k] < emitted[l]
    /\ Len(emitted) = Len(outFile.rows) - 1
    /\ Ended => Tail(outFile.rows) = ResolvedRows(FirstBad - 1)
    /\ tret = "completed" => RowsDone = Len(inFile.cells)
    /\ tret = "raised" /\ inFile.exists => RowsDone = FirstBad /\ FirstBad <= Len(inFile.cells)

C16_Witness ==
  /\ tret = "completed"
  /\ Len(inFile.cells) = 2
  /\ inFile.cells[1] = inFile.cells[2]
  /\ emitted = <<1, 2>>
  /\ Len(outFile.rows) = 3
  /\ outFile.rows[2] = outFile.rows[3]

\* ------------------------------------------ transform as a function of its inputs
\* What variant v's transform does with the first n rows of the downloaded
\* file once the output is open and the header written: the queries it sends,
\* the rows of the output file, and whether an exception has left the loop.
PassResult(queries, rows, raised) == [queries |-> queries, rows |-> rows, raised |-> raised]

\* for each variant and each answer of the service: what nominatim_geocode
\* returns and, when it returns two floats, what lines 74-80 make of them
LoopBodies ==
  [v \in Variants |->
     [resp \in AllResponses \cup TransformResponses |->
        LET r == nominatim_geocode(v, resp)
        IN  [r |-> r,
             o |-> IF r.x.kind = "float" /\ r.y.kind = "float" THEN OutputRow(v, r.x, r.y)
                   ELSE [ok |-> FALSE, row |-> <<>>]]]]

RECURSIVE PassOf(_, _)
PassOf(v, n) ==
  IF n = 0 THEN PassResult(<<>>, <<Header>>, ~inFile.exists)
  ELSE LET p == PassOf(v, n - 1)
           a == AddressOf(DictReaderRow(inFile, n))
       IN  IF p.raised THEN p
           ELSE IF a.exc # "" THEN PassResult(p.queries, p.rows, TRUE)
           ELSE LET b == LoopBodies[v][geo[a.address]]
                    q == Append(p.queries, a.address)
                IN  IF b.r.raised # "" THEN PassResult(q, p.rows, TRUE)
                    ELSE IF ~HasPair(XY(b.r.x, b.r.y)) THEN PassResult(q, p.rows, FALSE)
                    ELSE IF b.o.ok THEN PassResult(q, Append(p.rows, b.o.row), FALSE)
                    ELSE PassResult(q, p.rows, FALSE)

\* variant v's transform on this invocation's input, lock state and answers
TransformOf(v) ==
  IF RemoveFails(outAtStart, startLocked) THEN PassResult(<<>>, outAtStart.rows, FALSE)
  ELSE PassOf(v, Len(inFile.cells))

\* the queries this invocation's transform has sent, in order
QueriesSent ==
  [j \in 1..Len(EventsOf({"request"})) |->
     AddressOf(DictReaderRow(inFile, EventsOf({"request"})[j].i)).address]

\* C17: once transform has ended, in whichever script, the queries it sent and
\* the rows of the output file are those GSheetsEtl.transform gives and those
\* the function-style transform of each other script gives on the same
\* downloaded input, lock state and geocoder answers: the two styles send the
\* same queries and produce the same output rows.
C17_TransformVariantsAgree ==
  tret \in {"locked", "completed", "raised"} =>
    \A w \in Variants :
      \E t \in {TransformOf(w)} :
          /\ QueriesSent = t.queries
          /\ outFile.rows = t.rows

C17_Witness ==
  /\ variant = "GSheetsETL_Lab2"
  /\ tret = "completed"
  /\ Len(QueriesSent) = 2
  /\ Len(outFile.rows) = 3
  /\ outFile.rows = TransformOf("Lab2ETL").rows
  /\ outFile.rows[2] = << <<"-", "1", "0", "5", ".", "3">>, <<"4", "0", ".", "5">>, Residential >>
  /\ outFile.rows[3] = << <<"n", "a", "n">>, <<"4", "0", ".", "0", "1">>, Residential >>

====
